---- MODULE Spec2Model ----
(***************************************************************************)
(* Model of generate_transaction_uat_data.py: a linear script that drops,  *)
(* recreates and populates four SQL Server tables (Categories, Suppliers,  *)
(* Customers, Products) through one pyodbc connection, generating the rows *)
(* of the two high-volume tables in fixed-size batches from two seeded     *)
(* random sources (the random module and Faker).                           *)
(*                                                                         *)
(* Spec     the whole script, one step per database call, run twice in a   *)
(*          row against the same database; every database call may raise.  *)
(* SpecGen  the two row generators as pure functions of the values the     *)
(*          random sources hand out (the tapes) and of the wall clock,     *)
(*          applied by two runs that share the seed, hence the tapes.      *)
(***************************************************************************)
EXTENDS Integers, Sequences, FiniteSets, TLC

VARIABLES
    CUSTOMERS_TOTAL,  \* configured customer row count (line 11)
    PRODUCTS_TOTAL,   \* configured product row count (line 12)
    BATCH_SIZE,       \* configured batch size (line 10)
    run,              \* which execution of the script this is (1 or 2)
    pc,               \* the statement the script is about to execute
    loading,          \* the table the script is working on
    conn, cursor,     \* "None", "open" or "closed"
    db,               \* the tables as the open connection's transaction sees them
    committed,        \* the tables as durably committed in the server
    rng,              \* states of the two seeded generators
    total_batches, batch_num, total_inserted,
    batch,            \* customers_batch / products_batch: the rows about to be inserted
    error,            \* the exception in flight, "None" when there is none
    out,              \* what the script printed: per-table counts, summary, error
    hist,             \* history: bulk inserts and commits issued per table in this run
    randTape,         \* SpecGen: values handed out by random, in call order
    fakeTape,         \* SpecGen: values handed out by Faker, in call order
    clock,            \* wall-clock day at which each run executes
    genRows           \* SpecGen: rows generated by each run

vars == << CUSTOMERS_TOTAL, PRODUCTS_TOTAL, BATCH_SIZE, run, pc, loading, conn,
           cursor, db, committed, rng, total_batches, batch_num, total_inserted,
           batch, error, out, hist, randTape, fakeTape, clock, genRows >>

configVars == << CUSTOMERS_TOTAL, PRODUCTS_TOTAL, BATCH_SIZE >>
genVars == << randTape, fakeTape, genRows >>

(***************************************************************************)
(* Bounds of the model.                                                    *)
(***************************************************************************)
MaxCustomers == 11   \* CUSTOMERS_TOTAL ranges over 0..MaxCustomers
MaxProducts == 10    \* PRODUCTS_TOTAL ranges over 0..MaxProducts
MaxBatch == 2        \* BATCH_SIZE ranges over 1..MaxBatch
Epoch == 20000       \* wall-clock day of the first run
MaxDelay == 1        \* SpecGen: the second run executes 0..MaxDelay days later

(***************************************************************************)
(* Program constants.                                                      *)
(***************************************************************************)
COMMIT_EVERY_N_BATCHES == 10
SEED == 42
SUPPLIERS_TOTAL == 5000

Runs == {1, 2}
Tables == {"Categories", "Suppliers", "Customers", "Products"}
HighVolume == {"Customers", "Products"}

categories_data ==
    << "Electronics", "Clothing", "Food", "Books", "Toys", "Sports", "Home", "Beauty" >>

PRODUCT_NAMES ==
    << "Wireless Bluetooth Headphones", "USB-C Charging Cable", "Portable Power Bank",
       "Laptop Stand", "Wireless Mouse", "Stainless Steel Water Bottle", "Coffee Maker",
       "Blender", "Non-Stick Frying Pan", "Kitchen Knife Set", "Cotton T-Shirt",
       "Denim Jeans", "Running Shoes", "Winter Jacket", "Baseball Cap",
       "Electric Toothbrush", "Yoga Mat", "Resistance Bands", "Face Moisturizer",
       "Shampoo & Conditioner Set", "Notebook Set", "Ballpoint Pens (Pack of 10)",
       "Desk Organizer", "Sticky Notes", "Printer Paper (500 Sheets)" >>

EmailDomains ==
    << "gmail.com", "yahoo.com", "outlook.com", "hotmail.com", "email.com", "mail.com" >>

(***************************************************************************)
(* The random sources.  A draw is an integer d in 0..999 standing for the  *)
(* real d/1000 in [0,1).  The generators consume draws from a tape, a      *)
(* sequence of draws in call order; in Spec the tape is the stream of a    *)
(* seeded linear congruential generator of full period.                    *)
(***************************************************************************)
Scale == 1000

\* random.random() < p, with p given in thousandths
Below(d, perMille) == d < perMille

\* random.randint(a, b): an integer of a..b
randint(a, b, d) == a + (d * (b - a + 1)) \div Scale

\* random.uniform(a, b), rounded down to an integer
uniform(a, b, d) == a + (d * (b - a)) \div Scale

\* random.choice(seq)
choice(seq, d) == seq[1 + (d * Len(seq)) \div Scale]

\* one step of a seeded generator
NextState(s) == (21 * s + 7) % Scale

\* the generator's state after n draws
RECURSIVE Advance(_, _)
Advance(s, n) ==
    IF n = 0 THEN s
    ELSE IF n = 1 THEN NextState(s)
    ELSE LET half == Advance(s, n \div 2)
         IN  IF half >= 0 THEN Advance(half, n - n \div 2) ELSE half

\* the next n draws of a generator in state s
RECURSIVE Stream(_, _)
Stream(s, n) == IF n = 0 THEN << >> ELSE << s >> \o Stream(NextState(s), n - 1)

\* Faker.seed(42); random.seed(42)
SeededRng == [random |-> SEED, faker |-> SEED]

(***************************************************************************)
(* Faker's providers, each a function of one draw of Faker's generator.    *)
(* A person name is a string; lower().split() is tabulated for the names   *)
(* the model hands out.  An email is a record of its local part and its    *)
(* domain.  Dates are day numbers.                                         *)
(***************************************************************************)
None == "None"

PersonNames == << "John Smith", "Mary Ann Lee", "Cher" >>

LowerSplit(name) ==
    CASE name = "John Smith"   -> << "john", "smith" >>
      [] name = "Mary Ann Lee" -> << "mary", "ann", "lee" >>
      [] name = "Cher"         -> << "cher" >>

fake_name(f) == choice(PersonNames, f)

fake_email(f) ==
    [local |-> << choice(<< "asmith", "bjones" >>, f) >>,
     domain |-> choice(<< "example.org", "example.com", "example.net" >>, f)]

fake_phone_number(f) == choice(<< "555-0100", "001-555-0199x123" >>, f)

fake_country(f) == choice(<< "France", "Kenya", "Peru" >>, f)

\* "+1d", "+30d", "-5y", "-3y", "now" relative to the wall clock
Days(offset, now) ==
    CASE offset = "now"  -> now
      [] offset = "+1d"  -> now + 1
      [] offset = "+30d" -> now + 30
      [] offset = "-3y"  -> now - 3 * 365
      [] offset = "-5y"  -> now - 5 * 365

\* fake.date_time_between(start_date, end_date): both ends are resolved against
\* the wall clock at the time of the call, then a moment between them is drawn
date_time_between(start_date, end_date, now, f) ==
    randint(Days(start_date, now), Days(end_date, now), f)

(***************************************************************************)
(* The row generators.  R is the tape of random's draws and F the tape of  *)
(* Faker's draws, both starting at the row's first call; the result names  *)
(* the row and how many draws of each tape the row consumed.               *)
(***************************************************************************)
\* mutant: the email trial is run for every row, a null name included
CustomerRow_EmailTrialAlways(R, F, now) ==
    LET nameDefect == Below(R[1], 5)
        customer_name == IF nameDefect THEN None ELSE fake_name(F[1])
        name_parts == IF nameDefect THEN << "unknown", "unknown" >>
                      ELSE LowerSplit(customer_name)
        derived == Len(name_parts) >= 2
        emailDefect == derived /\ Below(R[2], 10)
        email ==
            IF ~derived THEN fake_email(F[2])
            ELSE IF emailDefect
                 THEN [local |-> << name_parts[1], name_parts[Len(name_parts)] >>,
                       domain |-> "invalid"]
                 ELSE [local |-> << name_parts[1], name_parts[Len(name_parts)] >>,
                       domain |-> choice(EmailDomains, R[3])]
        rUsed == IF ~derived THEN 1 ELSE IF emailDefect THEN 2 ELSE 3
        fUsed == IF derived THEN 1 ELSE 2
        dateDefect == Below(R[rUsed + 1], 10)
        created_date ==
            IF dateDefect
            THEN date_time_between("+1d", "+30d", now, F[fUsed + 1])
            ELSE date_time_between("-5y", "now", now, F[fUsed + 1])
    IN  [row |-> [CustomerName |-> customer_name,
                  Email |-> email,
                  Phone |-> fake_phone_number(F[fUsed + 2]),
                  Country |-> fake_country(F[fUsed + 3]),
                  CreatedDate |-> created_date,
                  IsActive |-> choice(<< 0, 1 >>, R[rUsed + 2])],
         nR |-> rUsed + 2,
         nF |-> fUsed + 3]

CustomerRow(R, F, now) ==
    LET nameDefect == Below(R[1], 5)
        customer_name == IF nameDefect THEN None ELSE fake_name(F[1])
        name_parts == IF nameDefect THEN << >> ELSE LowerSplit(customer_name)
        derived == ~nameDefect /\ Len(name_parts) >= 2
        emailDefect == derived /\ Below(R[2], 10)
        email ==
            IF nameDefect THEN fake_email(F[1])
            ELSE IF ~derived THEN fake_email(F[2])
            ELSE IF emailDefect
                 THEN [local |-> << name_parts[1], name_parts[Len(name_parts)] >>,
                       domain |-> "invalid"]
                 ELSE [local |-> << name_parts[1], name_parts[Len(name_parts)] >>,
                       domain |-> choice(EmailDomains, R[3])]
        rUsed == IF ~derived THEN 1 ELSE IF emailDefect THEN 2 ELSE 3
        fUsed == IF nameDefect \/ derived THEN 1 ELSE 2
        dateDefect == Below(R[rUsed + 1], 10)
        created_date ==
            IF dateDefect
            THEN date_time_between("+1d", "+30d", now, F[fUsed + 1])
            ELSE date_time_between("-5y", "now", now, F[fUsed + 1])
    IN  [row |-> [CustomerName |-> customer_name,
                  Email |-> email,
                  Phone |-> fake_phone_number(F[fUsed + 2]),
                  Country |-> fake_country(F[fUsed + 3]),
                  CreatedDate |-> created_date,
                  IsActive |-> choice(<< 0, 1 >>, R[rUsed + 2])],
         nR |-> rUsed + 2,
         nF |-> fUsed + 3]

\* mutant: the category is drawn from one value too many
ProductRow_CategoryOffByOne(R, F, now, i) ==
    LET product_name ==
            IF Below(R[1], 2) THEN None
            ELSE PRODUCT_NAMES[(i % Len(PRODUCT_NAMES)) + 1]
        unit_price ==
            IF Below(R[2], 5) THEN 0 - uniform(10, 1000, R[3])
            ELSE uniform(5, 2000, R[3])
        stock_quantity ==
            IF Below(R[4], 10) THEN 0 - randint(1, 100, R[5])
            ELSE randint(0, 1000, R[5])
        supplier_id == randint(1, 6000, R[6])
    IN  [row |-> [ProductName |-> product_name,
                  CategoryID |-> randint(1, 9, R[7]),
                  SupplierID |-> supplier_id,
                  UnitPrice |-> unit_price,
                  StockQuantity |-> stock_quantity,
                  CreatedDate |-> date_time_between("-3y", "now", now, F[1])],
         nR |-> 7,
         nF |-> 1]

ProductRow(R, F, now, i) ==
    LET product_name ==
            IF Below(R[1], 2) THEN None
            ELSE PRODUCT_NAMES[(i % Len(PRODUCT_NAMES)) + 1]
        unit_price ==
            IF Below(R[2], 5) THEN 0 - uniform(10, 1000, R[3])
            ELSE uniform(5, 2000, R[3])
        stock_quantity ==
            IF Below(R[4], 10) THEN 0 - randint(1, 100, R[5])
            ELSE randint(0, 1000, R[5])
        supplier_id == randint(1, 6000, R[6])
    IN  [row |-> [ProductName |-> product_name,
                  CategoryID |-> randint(1, 8, R[7]),
                  SupplierID |-> supplier_id,
                  UnitPrice |-> unit_price,
                  StockQuantity |-> stock_quantity,
                  CreatedDate |-> date_time_between("-3y", "now", now, F[1])],
         nR |-> 7,
         nF |-> 1]

\* the most draws one row takes from either tape
MaxDrawsPerRow == 7

\* generate_supplier_name(): only the draws it consumes are kept
generate_supplier_name(R, F) ==
    LET company_type == choice(<< "company", "business", "combined" >>, R[1])
    IN  [nR |-> IF company_type = "company" THEN 2 ELSE 3, nF |-> 1]

AfterSupplierName(g) ==
    LET r == generate_supplier_name(Stream(g.random, 1), Stream(g.faker, 1))
    IN  [random |-> Advance(g.random, r.nR), faker |-> Advance(g.faker, r.nF)]

RECURSIVE AfterSupplierNames(_, _)
AfterSupplierNames(g, n) ==
    IF n = 0 THEN g
    ELSE IF n = 1 THEN AfterSupplierName(g)
    ELSE LET half == AfterSupplierNames(g, n \div 2)
         IN  IF half.random >= 0 THEN AfterSupplierNames(half, n - n \div 2) ELSE half

\* supplier_names, then suppliers_data: a name, a country and a phone per supplier
AfterSuppliers(g) ==
    LET named == AfterSupplierNames(g, SUPPLIERS_TOTAL)
    IN  [random |-> named.random,
         faker |-> Advance(named.faker, 3 * SUPPLIERS_TOTAL)]

RngAfterSuppliersFromSeed == AfterSuppliers(SeededRng)

\* a batch of n rows generated from generator state g: the rows and the state after
RECURSIVE CustomersBatch(_, _, _)
CustomersBatch(g, n, now) ==
    IF n = 0 THEN [rows |-> << >>, rng |-> g]
    ELSE LET r == CustomerRow(Stream(g.random, MaxDrawsPerRow),
                              Stream(g.faker, MaxDrawsPerRow), now)
             rest == CustomersBatch([random |-> Advance(g.random, r.nR),
                                     faker |-> Advance(g.faker, r.nF)], n - 1, now)
         IN  [rows |-> << r.row >> \o rest.rows, rng |-> rest.rng]

RECURSIVE ProductsBatch(_, _, _, _)
ProductsBatch(g, n, now, i) ==
    IF n = 0 THEN [rows |-> << >>, rng |-> g]
    ELSE LET r == ProductRow(Stream(g.random, MaxDrawsPerRow),
                             Stream(g.faker, MaxDrawsPerRow), now, i)
             rest == ProductsBatch([random |-> Advance(g.random, r.nR),
                                    faker |-> Advance(g.faker, r.nF)], n - 1, now, i + 1)
         IN  [rows |-> << r.row >> \o rest.rows, rng |-> rest.rng]

(***************************************************************************)
(* The database.  A table is known by whether it exists and by how many    *)
(* rows it holds; its IDENTITY(1,1) keys are then 1..rows, since a table   *)
(* is only ever filled right after it was created and rows are never       *)
(* deleted.  pyodbc connects with autocommit off: every statement,         *)
(* DROP TABLE and CREATE TABLE included, changes db only, commit() copies  *)
(* db to committed, and closing the connection discards what is            *)
(* uncommitted.                                                            *)
(***************************************************************************)
NoTable == [exists |-> FALSE, rows |-> 0]
EmptyTable == [exists |-> TRUE, rows |-> 0]
NoTables == [t \in Tables |-> NoTable]

TableIDs(table) == 1..table.rows

Uncommitted(t) == db[t].rows - (IF committed[t].exists THEN committed[t].rows ELSE 0)

NoError == [kind |-> "None", at |-> "", table |-> "", batch |-> 0]

NoOutput ==
    [inserted |-> [t \in Tables |-> -1],
     summary |-> [printed |-> FALSE, Categories |-> 0, Suppliers |-> 0,
                  Customers |-> 0, Products |-> 0, TOTAL |-> 0],
     error |-> "None"]

NoHistory(atStart) ==
    [inserts |-> [t \in Tables |-> 0],
     sizes |-> [t \in Tables |-> {}],
     periodic |-> [t \in Tables |-> 0],
     final |-> [t \in Tables |-> 0],
     callsAfterError |-> 0,
     atStart |-> atStart]

NoBatch == [of |-> "None", n |-> 0, rows |-> << >>]

Total(t) == IF t = "Customers" THEN CUSTOMERS_TOTAL ELSE PRODUCTS_TOTAL

NextTable(t) ==
    CASE t = "Categories" -> "Suppliers"
      [] t = "Suppliers"  -> "Customers"
      [] t = "Customers"  -> "Products"

\* mutant: the period is one batch too long
OnCommitBoundary_LatePeriod(n) == (n + 1) % (COMMIT_EVERY_N_BATCHES + 1) = 0

\* (batch_num + 1) % COMMIT_EVERY_N_BATCHES == 0
OnCommitBoundary(n) == (n + 1) % COMMIT_EVERY_N_BATCHES = 0

\* a database call made once an exception is in flight (there is none in the script)
Called(h) == IF error.kind # "None" THEN [h EXCEPT !.callsAfterError = @ + 1] ELSE h

ProcessStart ==
    /\ pc' = "connect"
    /\ loading' = "Categories"
    /\ conn' = "None"
    /\ cursor' = "None"
    /\ rng' = SeededRng
    /\ total_batches' = 0
    /\ batch_num' = 0
    /\ total_inserted' = 0
    /\ batch' = NoBatch
    /\ error' = NoError
    /\ out' = NoOutput

Init ==
    /\ CUSTOMERS_TOTAL \in 0..MaxCustomers
    /\ PRODUCTS_TOTAL \in 0..MaxProducts
    /\ BATCH_SIZE \in 1..MaxBatch
    /\ run = 1
    /\ pc = "connect"
    /\ loading = "Categories"
    /\ conn = "None"
    /\ cursor = "None"
    /\ db = NoTables
    /\ committed = NoTables
    /\ rng = SeededRng
    /\ total_batches = 0
    /\ batch_num = 0
    /\ total_inserted = 0
    /\ batch = NoBatch
    /\ error = NoError
    /\ out = NoOutput
    /\ hist = NoHistory(NoTables)
    /\ randTape = << >>
    /\ fakeTape = << >>
    /\ clock = [r \in Runs |-> Epoch + (r - 1)]
    /\ genRows = [r \in Runs |-> << >>]

\* conn = pyodbc.connect(conn_string)
Connect ==
    /\ pc = "connect"
    /\ conn' = "open"
    /\ db' = committed
    /\ pc' = "cursor"
    /\ hist' = Called(hist)
    /\ UNCHANGED << configVars, genVars, run, loading, cursor, committed, rng,
                    total_batches, batch_num, total_inserted, batch, error, out, clock >>

\* cursor = conn.cursor(); cursor.fast_executemany = True
OpenCursor ==
    /\ pc = "cursor"
    /\ cursor' = "open"
    /\ pc' = "drop"
    /\ hist' = Called(hist)
    /\ UNCHANGED << configVars, genVars, run, loading, conn, db, committed, rng,
                    total_batches, batch_num, total_inserted, batch, error, out, clock >>

\* cursor.execute("IF OBJECT_ID(...) IS NOT NULL DROP TABLE ...")
DropTable ==
    /\ pc = "drop"
    /\ db' = [db EXCEPT ![loading] = NoTable]
    /\ pc' = "create"
    /\ hist' = Called(hist)
    /\ UNCHANGED << configVars, genVars, run, loading, conn, cursor, committed, rng,
                    total_batches, batch_num, total_inserted, batch, error, out, clock >>

\* cursor.execute("CREATE TABLE ..."), then the rows of the two small tables
CreateTable ==
    /\ pc = "create"
    /\ ~db[loading].exists
    /\ db' = [db EXCEPT ![loading] = EmptyTable]
    /\ hist' = Called(hist)
    /\ CASE loading = "Categories" ->
              /\ batch' = [of |-> loading, n |-> Len(categories_data),
                            rows |-> categories_data]
              /\ rng' = rng
              /\ pc' = "executemany"
         [] loading = "Suppliers" ->
              \* suppliers_data is counted, its rows are not materialised
              /\ batch' = [of |-> loading, n |-> SUPPLIERS_TOTAL, rows |-> << >>]
              /\ rng' = IF rng = SeededRng THEN RngAfterSuppliersFromSeed
                        ELSE AfterSuppliers(rng)
              /\ pc' = "executemany"
         [] loading \in HighVolume ->
              /\ batch' = batch
              /\ rng' = rng
              /\ pc' = "commit_ddl"
    /\ UNCHANGED << configVars, genVars, run, loading, conn, cursor, committed,
                    total_batches, batch_num, total_inserted, error, out, clock >>

\* mutant: the batch count is rounded up instead of down
CommitDDL_RoundUp ==
    /\ pc = "commit_ddl"
    /\ committed' = db
    /\ total_batches' = (Total(loading) + BATCH_SIZE - 1) \div BATCH_SIZE
    /\ total_inserted' = 0
    /\ batch_num' = 0
    /\ pc' = "loop"
    /\ hist' = Called(hist)
    /\ UNCHANGED << configVars, genVars, run, loading, conn, cursor, db, rng, batch,
                    error, out, clock >>

\* conn.commit() after CREATE TABLE; total_batches = TOTAL // BATCH_SIZE; total_inserted = 0
CommitDDL ==
    /\ pc = "commit_ddl"
    /\ committed' = db
    /\ total_batches' = Total(loading) \div BATCH_SIZE
    /\ total_inserted' = 0
    /\ batch_num' = 0
    /\ pc' = "loop"
    /\ hist' = Called(hist)
    /\ UNCHANGED << configVars, genVars, run, loading, conn, cursor, db, rng, batch,
                    error, out, clock >>

\* for batch_num in range(total_batches): the inner loop fills the batch
GenerateBatch ==
    /\ pc = "loop"
    /\ batch_num < total_batches
    /\ LET b == IF loading = "Customers"
                THEN CustomersBatch(rng, BATCH_SIZE, clock[run])
                ELSE ProductsBatch(rng, BATCH_SIZE, clock[run], 0)
       IN  /\ batch' = [of |-> loading, n |-> Len(b.rows), rows |-> b.rows]
           /\ rng' = b.rng
    /\ pc' = "executemany"
    /\ UNCHANGED << configVars, genVars, run, loading, conn, cursor, db, committed,
                    total_batches, batch_num, total_inserted, error, out, hist, clock >>

\* mutant: the connection is in autocommit mode, every bulk insert is durable at once
ExecuteMany_AutoCommit ==
    /\ pc = "executemany"
    /\ db[loading].exists
    /\ db' = [db EXCEPT ![loading].rows = @ + batch.n]
    /\ committed' = db'
    /\ hist' = [Called(hist) EXCEPT !.inserts[loading] = @ + 1,
                                    !.sizes[loading] = @ \cup {batch.n}]
    /\ IF loading \in HighVolume
       THEN /\ total_inserted' = total_inserted + batch.n
            /\ pc' = "periodic"
       ELSE /\ total_inserted' = total_inserted
            /\ pc' = "commit"
    /\ UNCHANGED << configVars, genVars, run, loading, conn, cursor, rng,
                    total_batches, batch_num, batch, error, out, clock >>

\* cursor.executemany(sql, batch); total_inserted += len(batch)
ExecuteMany ==
    /\ pc = "executemany"
    /\ db[loading].exists
    /\ db' = [db EXCEPT ![loading].rows = @ + batch.n]
    /\ hist' = [Called(hist) EXCEPT !.inserts[loading] = @ + 1,
                                    !.sizes[loading] = @ \cup {batch.n}]
    /\ IF loading \in HighVolume
       THEN /\ total_inserted' = total_inserted + batch.n
            /\ pc' = "periodic"
       ELSE /\ total_inserted' = total_inserted
            /\ pc' = "commit"
    /\ UNCHANGED << configVars, genVars, run, loading, conn, cursor, committed, rng,
                    total_batches, batch_num, batch, error, out, clock >>

\* conn.commit() and the printed count of Categories and of Suppliers
CommitSmallTable ==
    /\ pc = "commit"
    /\ committed' = db
    /\ out' = [out EXCEPT !.inserted[loading] =
                   IF loading = "Categories" THEN Len(categories_data) ELSE 5000]
    /\ loading' = NextTable(loading)
    /\ pc' = "drop"
    /\ hist' = Called(hist)
    /\ UNCHANGED << configVars, genVars, run, conn, cursor, db, rng, total_batches,
                    batch_num, total_inserted, batch, error, clock >>

\* commit_periodically(conn, batch_num, total_inserted, label), end of the loop body
CommitPeriodically ==
    /\ pc = "periodic"
    /\ IF OnCommitBoundary(batch_num)
       THEN /\ committed' = db
            /\ hist' = [Called(hist) EXCEPT !.periodic[loading] = @ + 1]
       ELSE /\ committed' = committed
            /\ hist' = hist
    /\ batch_num' = batch_num + 1
    /\ pc' = "loop"
    /\ UNCHANGED << configVars, genVars, run, loading, conn, cursor, db, rng,
                    total_batches, total_inserted, batch, error, out, clock >>

\* mutant: no commit after the loop, the periodic commits are relied on
FinalCommit_Skipped ==
    /\ pc = "loop"
    /\ batch_num >= total_batches
    /\ committed' = committed
    /\ hist' = hist
    /\ out' = [out EXCEPT !.inserted[loading] = total_inserted]
    /\ IF loading = "Customers"
       THEN /\ loading' = "Products"
            /\ pc' = "drop"
       ELSE /\ loading' = loading
            /\ pc' = "summary"
    /\ UNCHANGED << configVars, genVars, run, conn, cursor, db, rng, total_batches,
                    batch_num, total_inserted, batch, error, clock >>

\* the loop is over: conn.commit() and the printed count of the table
FinalCommit ==
    /\ pc = "loop"
    /\ batch_num >= total_batches
    /\ committed' = db
    /\ hist' = [Called(hist) EXCEPT !.final[loading] = @ + 1]
    /\ out' = [out EXCEPT !.inserted[loading] = total_inserted]
    /\ IF loading = "Customers"
       THEN /\ loading' = "Products"
            /\ pc' = "drop"
       ELSE /\ loading' = loading
            /\ pc' = "summary"
    /\ UNCHANGED << configVars, genVars, run, conn, cursor, db, rng, total_batches,
                    batch_num, total_inserted, batch, error, clock >>

\* FINAL SUMMARY
PrintSummary ==
    /\ pc = "summary"
    /\ out' = [out EXCEPT !.summary =
                   [printed |-> TRUE,
                    Categories |-> Len(categories_data),
                    Suppliers |-> 5000,
                    Customers |-> CUSTOMERS_TOTAL,
                    Products |-> PRODUCTS_TOTAL,
                    TOTAL |-> Len(categories_data) + 5000 + CUSTOMERS_TOTAL
                              + PRODUCTS_TOTAL]]
    /\ pc' = "finally"
    /\ UNCHANGED << configVars, genVars, run, loading, conn, cursor, db, committed, rng,
                    total_batches, batch_num, total_inserted, batch, error, hist, clock >>

\* a database call is about to be made
CallPending ==
    \/ pc \in {"connect", "cursor", "drop", "create", "commit_ddl", "commit"}
    \/ pc = "periodic" /\ OnCommitBoundary(batch_num)
    \/ pc = "loop" /\ batch_num >= total_batches

\* pyodbc.connect, conn.cursor, cursor.execute or conn.commit raises: nothing changes
CallRaises ==
    /\ CallPending
    /\ error' = [kind |-> "pyodbc.Error", at |-> pc, table |-> loading,
                 batch |-> batch_num]
    /\ pc' = "except"
    /\ UNCHANGED << configVars, genVars, run, loading, conn, cursor, db, committed, rng,
                    total_batches, batch_num, total_inserted, batch, out, hist, clock >>

\* cursor.executemany raises, having inserted none of the batch or all but its last row
ExecuteManyRaises ==
    /\ pc = "executemany"
    /\ \E k \in {0, batch.n - 1} :
          db' = [db EXCEPT ![loading].rows = @ + k]
    /\ error' = [kind |-> "pyodbc.Error", at |-> pc, table |-> loading,
                 batch |-> batch_num]
    /\ pc' = "except"
    /\ UNCHANGED << configVars, genVars, run, loading, conn, cursor, committed, rng,
                    total_batches, batch_num, total_inserted, batch, out, hist, clock >>

\* filling the batch raises something that is no pyodbc.Error
GenerateRaises ==
    /\ pc = "loop"
    /\ batch_num < total_batches
    /\ error' = [kind |-> "Exception", at |-> "generate", table |-> loading,
                 batch |-> batch_num]
    /\ pc' = "except"
    /\ UNCHANGED << configVars, genVars, run, loading, conn, cursor, db, committed, rng,
                    total_batches, batch_num, total_inserted, batch, out, hist, clock >>

\* except pyodbc.Error / except Exception: print the label and the error, raise
Except ==
    /\ pc = "except"
    /\ out' = [out EXCEPT !.error =
                   IF error.kind = "pyodbc.Error" THEN "SQL Server error occurred."
                   ELSE "General error occurred."]
    /\ pc' = "finally"
    /\ UNCHANGED << configVars, genVars, run, loading, conn, cursor, db, committed, rng,
                    total_batches, batch_num, total_inserted, batch, error, hist, clock >>

\* mutant: the two close() calls sit at the end of the try block, not in finally
Finally_CloseOnSuccessOnly ==
    /\ pc = "finally"
    /\ cursor' = IF cursor = "open" /\ error.kind = "None" THEN "closed" ELSE cursor
    /\ conn' = IF conn = "open" /\ error.kind = "None" THEN "closed" ELSE conn
    /\ db' = committed
    /\ pc' = "terminated"
    /\ UNCHANGED << configVars, genVars, run, loading, committed, rng, total_batches,
                    batch_num, total_inserted, batch, error, out, hist, clock >>

\* finally: if cursor: cursor.close(); if conn: conn.close(); then the process ends
Finally ==
    /\ pc = "finally"
    /\ cursor' = IF cursor = "open" THEN "closed" ELSE cursor
    /\ conn' = IF conn = "open" THEN "closed" ELSE conn
    /\ db' = committed
    /\ pc' = "terminated"
    /\ UNCHANGED << configVars, genVars, run, loading, committed, rng, total_batches,
                    batch_num, total_inserted, batch, error, out, hist, clock >>

\* the script is executed again, against the database the first run left
RunAgain ==
    /\ pc = "terminated"
    /\ run = 1
    /\ run' = 2
    /\ ProcessStart
    /\ db' = committed
    /\ hist' = NoHistory(committed)
    /\ UNCHANGED << configVars, genVars, committed, clock >>

Next ==
    \/ Connect
    \/ OpenCursor
    \/ DropTable
    \/ CreateTable
    \/ CommitDDL
    \/ GenerateBatch
    \/ ExecuteMany
    \/ CommitSmallTable
    \/ CommitPeriodically
    \/ FinalCommit
    \/ PrintSummary
    \/ CallRaises
    \/ ExecuteManyRaises
    \/ GenerateRaises
    \/ Except
    \/ Finally
    \/ RunAgain

Spec == Init /\ [][Next]_vars

(***************************************************************************)
(* SpecGen: the row generators on every tape.  Two runs of the script      *)
(* seed both generators alike, so both read the same tapes; they execute   *)
(* at their own wall-clock days.  Each run generates one customer row and  *)
(* one product row, each from the start of the tapes.                      *)
(***************************************************************************)
RandomDraws == {0, 500, 999}
FakerDraws == {0, 999}

InitGen ==
    /\ CUSTOMERS_TOTAL = 1
    /\ PRODUCTS_TOTAL = 1
    /\ BATCH_SIZE = 1
    /\ run = 1
    /\ pc = "gen_customer"
    /\ loading = "Customers"
    /\ conn = "None"
    /\ cursor = "None"
    /\ db = NoTables
    /\ committed = NoTables
    /\ rng = SeededRng
    /\ total_batches = 0
    /\ batch_num = 0
    /\ total_inserted = 0
    /\ batch = NoBatch
    /\ error = NoError
    /\ out = NoOutput
    /\ hist = NoHistory(NoTables)
    /\ randTape \in [1..MaxDrawsPerRow -> RandomDraws]
    /\ fakeTape \in [1..5 -> FakerDraws]
    /\ \E delay \in 0..MaxDelay : clock = [r \in Runs |-> Epoch + (r - 1) * delay]
    /\ genRows = [r \in Runs |-> << >>]

\* one pass of the customers inner loop, lines 204-241
GenCustomer ==
    /\ pc = "gen_customer"
    /\ genRows' = [genRows EXCEPT ![run] =
                       Append(@, CustomerRow(randTape, fakeTape, clock[run]).row)]
    /\ pc' = "gen_product"
    /\ UNCHANGED << configVars, randTape, fakeTape, clock, run, loading, conn, cursor,
                    db, committed, rng, total_batches, batch_num, total_inserted, batch,
                    error, out, hist >>

\* one pass of the products inner loop, lines 284-314
GenProduct ==
    /\ pc = "gen_product"
    /\ genRows' = [genRows EXCEPT ![run] =
                       Append(@, ProductRow(randTape, fakeTape, clock[run], 0).row)]
    /\ IF run = 1
       THEN /\ run' = 2
            /\ pc' = "gen_customer"
       ELSE /\ run' = run
            /\ pc' = "gen_done"
    /\ UNCHANGED << configVars, randTape, fakeTape, clock, loading, conn, cursor,
                    db, committed, rng, total_batches, batch_num, total_inserted, batch,
                    error, out, hist >>

NextGen ==
    \/ GenCustomer
    \/ GenProduct

SpecGen == InitGen /\ [][NextGen]_vars

(***************************************************************************)
(* Properties.                                                             *)
(***************************************************************************)
K == COMMIT_EVERY_N_BATCHES

\* the load phase of table t ran to its end in this run (its count was printed)
Loaded(t) == out.inserted[t] # -1

\* this run ended without an exception
Completed == pc = "terminated" /\ error.kind = "None"

\* this run ended with an exception raised while table t was being loaded
FailedLoading(t) ==
    /\ pc = "terminated"
    /\ error.table = t
    /\ error.at \in {"generate", "executemany", "periodic", "loop"}

\* C1: for every N >= 0 and B > 0 each batch loop that ran to its end issued
\* exactly floor(N/B) bulk inserts, each of exactly B rows, its running count is
\* B * floor(N/B) and the table holds that many rows: the N mod B rows are never
\* generated or inserted.
C1_FloorBatches ==
    \A t \in HighVolume :
        Loaded(t) =>
            /\ hist.inserts[t] = Total(t) \div BATCH_SIZE
            /\ hist.sizes[t] \subseteq {BATCH_SIZE}
            /\ out.inserted[t] = BATCH_SIZE * (Total(t) \div BATCH_SIZE)
            /\ db[t].rows = BATCH_SIZE * (Total(t) \div BATCH_SIZE)
            /\ db[t].rows = Total(t) - (Total(t) % BATCH_SIZE)

\* both loops ran to their end with a remainder, the customers one after at least
\* one batch (N = B + r, as in 10,005 rows in batches of 10,000)
C1_Witness ==
    /\ Loaded("Customers")
    /\ Loaded("Products")
    /\ CUSTOMERS_TOTAL > BATCH_SIZE
    /\ CUSTOMERS_TOTAL % BATCH_SIZE # 0
    /\ PRODUCTS_TOTAL % BATCH_SIZE # 0

\* C2 (as claimed): after a run that completed, the first or the second in a row,
\* the tables hold exactly 8, 5000, N_customers and N_products rows.
C2_ConfiguredCounts ==
    Completed =>
        /\ committed["Categories"] = [exists |-> TRUE, rows |-> 8]
        /\ committed["Suppliers"] = [exists |-> TRUE, rows |-> 5000]
        /\ committed["Customers"] = [exists |-> TRUE, rows |-> CUSTOMERS_TOTAL]
        /\ committed["Products"] = [exists |-> TRUE, rows |-> PRODUCTS_TOTAL]

\* C3 (as claimed): the rows of a high-volume table that are inserted and not yet
\* committed number at most K*B - 1 in every state.
C3_AtMostKBMinusOne ==
    \A t \in HighVolume : Uncommitted(t) <= K * BATCH_SIZE - 1

\* C3 (amended): the rows of a high-volume table that are inserted and not yet
\* committed number at most K*B in every state, a failure of the periodic commit
\* included.
C3_AtMostKB ==
    \A t \in HighVolume : Uncommitted(t) <= K * BATCH_SIZE

\* the periodic commit that follows the K-th bulk insert raised: K*B rows are lost
C3_Witness ==
    /\ error.kind # "None"
    /\ error.at = "periodic"
    /\ Uncommitted(error.table) = K * BATCH_SIZE

\* C4: a batch loop that ran to its end issued exactly one commit after its last
\* batch, on a K-boundary or not, and every row inserted into its table is
\* committed; with N = B it issued one bulk insert, no periodic commit and that one
\* final commit.
C4_FinalCommit ==
    \A t \in HighVolume :
        Loaded(t) =>
            /\ hist.final[t] = 1
            /\ hist.periodic[t] = (Total(t) \div BATCH_SIZE) \div K
            /\ committed[t].exists
            /\ committed[t].rows = out.inserted[t]
            /\ committed[t].rows = BATCH_SIZE * hist.inserts[t]
            /\ Uncommitted(t) = 0
            /\ Total(t) = BATCH_SIZE =>
                   /\ hist.inserts[t] = 1
                   /\ hist.periodic[t] = 0
                   /\ committed[t].rows = Total(t)

\* the customers loop ended after a single batch (N = B), the products loop right
\* on a K-boundary
C4_Witness ==
    /\ Loaded("Customers")
    /\ CUSTOMERS_TOTAL = BATCH_SIZE
    /\ Loaded("Products")
    /\ PRODUCTS_TOTAL = K * BATCH_SIZE

\* C5: when the process ends, no cursor and no connection is left open; after an
\* exception the error was printed, is still raised, the run was not reported
\* complete and no database call was made again; without one the summary was
\* printed.
C5_Cleanup ==
    pc = "terminated" =>
        /\ cursor # "open"
        /\ conn # "open"
        /\ conn = "None" => error.at = "connect"
        /\ cursor = "None" => error.at \in {"connect", "cursor"}
        /\ error.kind # "None" =>
               /\ out.error # "None"
               /\ ~out.summary.printed
               /\ hist.callsAfterError = 0
        /\ error.kind = "None" => out.summary.printed /\ out.error = "None"

\* a bulk insert raised with both resources open; both are closed at the end
C5_Witness ==
    /\ pc = "terminated"
    /\ error.at = "executemany"
    /\ cursor = "closed"
    /\ conn = "closed"

\* C6 (as claimed): two runs with the same seed generating the same rows in the
\* same call order produce identical rows, whatever the day each run executes.
C6_Deterministic ==
    pc = "gen_done" => genRows[1] = genRows[2]

CustomerDefects(row, now) ==
    [nullName |-> row.CustomerName = None,
     invalidEmail |-> row.Email.domain = "invalid",
     futureDate |-> row.CreatedDate > now]

ProductDefects(row) ==
    [nullName |-> row.ProductName = None,
     negativePrice |-> row.UnitPrice < 0,
     negativeStock |-> row.StockQuantity < 0]

AllCustomerDefects == [nullName : BOOLEAN, invalidEmail : BOOLEAN, futureDate : BOOLEAN]
AllProductDefects == [nullName : BOOLEAN, negativePrice : BOOLEAN, negativeStock : BOOLEAN]

\* the outcomes of one row over every tape
PossibleCustomerDefects ==
    { CustomerDefects(CustomerRow(R, F, Epoch).row, Epoch) :
          R \in [1..MaxDrawsPerRow -> RandomDraws], F \in [1..5 -> FakerDraws] }

PossibleProductDefects ==
    { ProductDefects(ProductRow(R, F, Epoch, 0).row) :
          R \in [1..MaxDrawsPerRow -> RandomDraws], F \in [1..1 -> FakerDraws] }

\* C7 (as claimed): every combination of the three customer defects and every
\* combination of the three product defects is a possible outcome of one row.
C7_EveryCombination ==
    pc = "gen_done" =>
        /\ AllCustomerDefects \subseteq PossibleCustomerDefects
        /\ AllProductDefects \subseteq PossibleProductDefects

\* C7 (amended): no customer row has both a null name and an '@invalid' email;
\* every other combination of the three customer defects, and every combination
\* of the three product defects, is a possible outcome of one row.
C7_CombinationsButNullNameInvalidEmail ==
    /\ \A r \in Runs : \A i \in 1..Len(genRows[r]) :
           "Email" \in DOMAIN genRows[r][i] =>
               ~(genRows[r][i].CustomerName = None
                 /\ genRows[r][i].Email.domain = "invalid")
    /\ pc = "gen_done" =>
           /\ PossibleCustomerDefects =
                  { c \in AllCustomerDefects : ~(c.nullName /\ c.invalidEmail) }
           /\ PossibleProductDefects = AllProductDefects

\* a customer row with a null name and a future date, and a product row with all
\* three defects, were generated
C7_Witness ==
    /\ pc = "gen_done"
    /\ CustomerDefects(genRows[1][1], clock[1]) =
           [nullName |-> TRUE, invalidEmail |-> FALSE, futureDate |-> TRUE]
    /\ ProductDefects(genRows[1][2]) =
           [nullName |-> TRUE, negativePrice |-> TRUE, negativeStock |-> TRUE]

\* C8: every row of every products batch has a category_id in 1..8 that is the key
\* of one of the 8 Categories rows committed earlier in this run, and a supplier_id
\* in 1..6000 that is the key of a Suppliers row exactly when it is at most 5000.
C8_CategoryNeverOrphaned ==
    batch.of = "Products" =>
        /\ hist.inserts["Categories"] = 1
        /\ committed["Categories"] = [exists |-> TRUE, rows |-> 8]
        /\ hist.inserts["Suppliers"] = 1
        /\ \A i \in 1..batch.n :
               /\ batch.rows[i].CategoryID \in 1..8
               /\ batch.rows[i].CategoryID \in TableIDs(committed["Categories"])
               /\ batch.rows[i].SupplierID \in 1..6000
               /\ batch.rows[i].SupplierID > 5000
                      <=> batch.rows[i].SupplierID \notin TableIDs(committed["Suppliers"])

\* a products batch of the second run holds category 8 and an orphaned supplier
C8_Witness ==
    /\ batch.of = "Products"
    /\ run = 2
    /\ \E i \in 1..batch.n :
           batch.rows[i].CategoryID = 8 /\ batch.rows[i].SupplierID > 5000

\* C9: after a failure while a high-volume table was being loaded, no insert or
\* commit followed, the connection's uncommitted rows are gone, the table holds the
\* batches up to the last periodic commit (K*B rows per period), the tables loaded
\* before it hold all their rows and the table not reached is as the run found it.
C9_AbortKeepsCommitted ==
    \A t \in HighVolume :
        FailedLoading(t) =>
            /\ hist.callsAfterError = 0
            /\ hist.final[t] = 0
            /\ hist.inserts[t] = error.batch + (IF error.at = "periodic" THEN 1 ELSE 0)
            /\ db = committed
            /\ committed[t] = [exists |-> TRUE,
                               rows |-> K * BATCH_SIZE * (error.batch \div K)]
            /\ committed[t].rows % (K * BATCH_SIZE) = 0
            /\ committed["Categories"] = [exists |-> TRUE, rows |-> 8]
            /\ committed["Suppliers"] = [exists |-> TRUE, rows |-> 5000]
            /\ t = "Products" =>
                   committed["Customers"] =
                       [exists |-> TRUE,
                        rows |-> BATCH_SIZE * (CUSTOMERS_TOTAL \div BATCH_SIZE)]
            /\ t = "Customers" => committed["Products"] = hist.atStart["Products"]

\* the second run failed at a bulk insert into Customers after a periodic commit,
\* with Products still holding the rows of the first run
C9_Witness ==
    /\ FailedLoading("Customers")
    /\ run = 2
    /\ error.at = "executemany"
    /\ error.batch >= K
    /\ committed["Customers"].rows = K * BATCH_SIZE
    /\ committed["Products"].rows > 0

\* C10 (as claimed): the counts of the final summary are the rows inserted and
\* committed in this run.
C10_SummaryIsActual ==
    out.summary.printed =>
        /\ out.summary.Customers = committed["Customers"].rows
        /\ out.summary.Products = committed["Products"].rows
        /\ out.summary.TOTAL =
               committed["Categories"].rows + committed["Suppliers"].rows
               + committed["Customers"].rows + committed["Products"].rows

====
